---- MODULE Spec2Model ----
(***************************************************************************)
(* Model of trackFeesLocked.mjs: the daily snapshot of unclaimed Token B   *)
(* fees of Meteora DAMM v2 LP positions.                                   *)
(*                                                                         *)
(* JavaScript BigInt values are arbitrary-precision signed integers.  TLC  *)
(* integers are 32 bits wide, so a BigInt is modelled exactly as a record  *)
(* [neg, mag] whose magnitude is a little-endian sequence of base-256      *)
(* limbs without high zero limbs; zero is [neg |-> FALSE, mag |-> <<>>].   *)
(***************************************************************************)
EXTENDS Integers, Sequences, FiniteSets, TLC

\* ---------------------------------------------------------------------------
\* Arbitrary-precision arithmetic (the semantics of JS BigInt operators)
\* ---------------------------------------------------------------------------

Max(a, b) == IF a >= b THEN a ELSE b

Zeros(n) == [i \in 1..n |-> 0]

RECURSIVE MagNorm(_)
MagNorm(s) ==
  IF s = <<>> THEN <<>>
  ELSE IF s[Len(s)] = 0 THEN MagNorm(SubSeq(s, 1, Len(s) - 1))
  ELSE s

Limb(m, i) == IF i <= Len(m) THEN m[i] ELSE 0

\* -1, 0, 1 as a < b, a = b, a > b (both magnitudes normalised)
MagCmp(a, b) ==
  IF Len(a) < Len(b) THEN -1
  ELSE IF Len(a) > Len(b) THEN 1
  ELSE LET diff == {i \in 1..Len(a) : a[i] # b[i]}
       IN IF diff = {} THEN 0
          ELSE LET top == CHOOSE i \in diff : \A j \in diff : j <= i
               IN IF a[top] < b[top] THEN -1 ELSE 1

\* Limbs lo..hi of a + b with carry-in cin: [s |-> the limbs, c |-> carry-out].
\* The range is halved at each step, the carry of the low half feeding the
\* high half, so that the evaluation depth is logarithmic in the length.
RECURSIVE MagAddRange(_, _, _, _, _)
MagAddRange(a, b, lo, hi, cin) ==
  IF lo > hi THEN [s |-> <<>>, c |-> cin]
  ELSE IF lo = hi
  THEN LET t == Limb(a, lo) + Limb(b, lo) + cin
       IN [s |-> <<t % 256>>, c |-> t \div 256]
  ELSE LET mid == (lo + hi) \div 2
           L   == MagAddRange(a, b, lo, mid, cin)
           H   == MagAddRange(a, b, mid + 1, hi, L.c)
       IN [s |-> L.s \o H.s, c |-> H.c]

MagAdd(a, b) ==
  LET r == MagAddRange(a, b, 1, Max(Len(a), Len(b)), 0)
  IN IF r.c = 0 THEN r.s ELSE Append(r.s, r.c)

\* Limbs lo..hi of a - b with borrow-in bin: [s |-> the limbs, c |-> borrow-out]
RECURSIVE MagSubRange(_, _, _, _, _)
MagSubRange(a, b, lo, hi, bin) ==
  IF lo > hi THEN [s |-> <<>>, c |-> bin]
  ELSE IF lo = hi
  THEN LET d == a[lo] - Limb(b, lo) - bin
       IN IF d < 0 THEN [s |-> <<d + 256>>, c |-> 1] ELSE [s |-> <<d>>, c |-> 0]
  ELSE LET mid == (lo + hi) \div 2
           L   == MagSubRange(a, b, lo, mid, bin)
           H   == MagSubRange(a, b, mid + 1, hi, L.c)
       IN [s |-> L.s \o H.s, c |-> H.c]

\* a - b for magnitudes with a >= b
MagSub(a, b) == MagNorm(MagSubRange(a, b, 1, Len(a), 0).s)

\* Limbs lo..hi of a * d with carry-in cin (0 <= d < 256, 0 <= cin < 256)
RECURSIVE MagMulSmallRange(_, _, _, _, _)
MagMulSmallRange(a, d, lo, hi, cin) ==
  IF lo > hi THEN [s |-> <<>>, c |-> cin]
  ELSE IF lo = hi
  THEN LET p == a[lo] * d + cin
       IN [s |-> <<p % 256>>, c |-> p \div 256]
  ELSE LET mid == (lo + hi) \div 2
           L   == MagMulSmallRange(a, d, lo, mid, cin)
           H   == MagMulSmallRange(a, d, mid + 1, hi, L.c)
       IN [s |-> L.s \o H.s, c |-> H.c]

\* a * d for a magnitude a and a small multiplier 0 <= d < 256
MagMulSmall(a, d) ==
  LET r == MagMulSmallRange(a, d, 1, Len(a), 0)
  IN MagNorm(IF r.c = 0 THEN r.s ELSE Append(r.s, r.c))

\* The sum of the rows a[i] * b * 256^(i - lo) for i in lo..hi
RECURSIVE MagMulRange(_, _, _, _)
MagMulRange(a, b, lo, hi) ==
  IF lo > hi THEN <<>>
  ELSE IF lo = hi THEN MagMulSmall(b, a[lo])
  ELSE LET mid == (lo + hi) \div 2
           L   == MagMulRange(a, b, lo, mid)
           H   == MagMulRange(a, b, mid + 1, hi)
       IN IF H = <<>> THEN L ELSE MagAdd(L, Zeros(mid - lo + 1) \o H)

MagMul(a, b) == MagNorm(MagMulRange(a, b, 1, Len(a)))

\* Limbs hi down to lo of m divided by d with incoming remainder rin:
\* [q |-> quotient limbs lo..hi, r |-> remainder]
RECURSIVE MagDivSmallRange(_, _, _, _, _)
MagDivSmallRange(m, d, lo, hi, rin) ==
  IF lo > hi THEN [q |-> <<>>, r |-> rin]
  ELSE IF lo = hi
  THEN LET cur == rin * 256 + m[lo]
       IN [q |-> <<cur \div d>>, r |-> cur % d]
  ELSE LET mid == (lo + hi) \div 2
           H   == MagDivSmallRange(m, d, mid + 1, hi, rin)
           L   == MagDivSmallRange(m, d, lo, mid, H.r)
       IN [q |-> L.q \o H.q, r |-> L.r]

\* quotient and remainder of a magnitude by a small divisor 0 < d < 256
MagDivSmall(m, d) ==
  LET qr == MagDivSmallRange(m, d, 1, Len(m), 0)
  IN [q |-> MagNorm(qr.q), r |-> qr.r]

Big(n, m) == [neg |-> n /\ m # <<>>, mag |-> m]

BigZero == Big(FALSE, <<>>)

\* BigInt(n) of a JS number that is a small non-negative integer
RECURSIVE NatToMag(_)
NatToMag(n) == IF n = 0 THEN <<>> ELSE <<n % 256>> \o NatToMag(n \div 256)

BigOfNat(n) == Big(FALSE, NatToMag(n))

BigNeg(a) == Big(~a.neg, a.mag)

\* a + b
BigAdd(a, b) ==
  IF a.neg = b.neg THEN Big(a.neg, MagAdd(a.mag, b.mag))
  ELSE IF MagCmp(a.mag, b.mag) >= 0 THEN Big(a.neg, MagSub(a.mag, b.mag))
  ELSE Big(b.neg, MagSub(b.mag, a.mag))

\* a - b
BigSub(a, b) == BigAdd(a, BigNeg(b))

\* a * b
BigMul(a, b) == Big(a.neg # b.neg, MagMul(a.mag, b.mag))

\* a < b
BigLess(a, b) ==
  IF a.neg # b.neg THEN a.neg
  ELSE IF a.neg THEN MagCmp(a.mag, b.mag) > 0
  ELSE MagCmp(a.mag, b.mag) < 0

BigLeq(a, b) == a = b \/ BigLess(a, b)

\* a << bits, for a shift count that is a whole number of bytes (8n, 128n)
BigShl(a, bits) ==
  IF a.mag = <<>> THEN a ELSE Big(a.neg, Zeros(bits \div 8) \o a.mag)

\* a / d, BigInt division (truncating toward zero), for the divisors the
\* program uses: powers of 256, where dividing drops the low limbs
BigDiv(a, d) ==
  LET k == Len(d.mag) - 1
  IN IF Len(a.mag) <= k THEN BigZero
     ELSE Big(a.neg # d.neg, SubSeq(a.mag, k + 1, Len(a.mag)))

\* ---------------------------------------------------------------------------
\* Decimal strings: BN.prototype.toString() and BigInt(string)
\* A string of decimal digits is a sequence over 0..9, first character first.
\* ---------------------------------------------------------------------------

RECURSIVE MagToDigits(_)
MagToDigits(m) ==
  IF m = <<>> THEN <<>>
  ELSE LET qr == MagDivSmall(m, 10)
       IN Append(MagToDigits(qr.q), qr.r)

\* bn.toString() for a non-negative BN whose value has magnitude m
BNToString(m) == IF m = <<>> THEN <<0>> ELSE MagToDigits(m)

RECURSIVE DigitsToMag(_, _)
DigitsToMag(s, i) ==
  IF i = 0 THEN <<>>
  ELSE LET hi == DigitsToMag(s, i - 1)
       IN IF hi = <<>> THEN NatToMag(s[i])
          ELSE MagAdd(MagMulSmall(hi, 10), NatToMag(s[i]))

\* BigInt(s) for a string s of decimal digits
BigIntOfString(s) == Big(FALSE, MagNorm(DigitsToMag(s, Len(s))))

\* ---------------------------------------------------------------------------
\* Program constants
\* ---------------------------------------------------------------------------

\* const LIQUIDITY_SCALE = 1n << 128n;
LIQUIDITY_SCALE == BigShl(BigOfNat(1), 128)

\* const TOKEN_B_DECIMALS = 6n;
TOKEN_B_DECIMALS == 6

\* ---------------------------------------------------------------------------
\* Helpers of the program
\* ---------------------------------------------------------------------------

\* function u256BytesToBigInt(bytes)
\*   let x = 0n;
\*   for (let i = arr.length - 1; i >= 0; i--) x = (x << 8n) + BigInt(arr[i]);
\* u256After(arr, i) is x once the loop body has run for the (1-based)
\* indexes Len(arr) down to i; while x is still 0n, (x << 8n) + d is d.
RECURSIVE u256After(_, _)
u256After(arr, i) ==
  IF i > Len(arr) THEN BigZero
  ELSE LET x == u256After(arr, i + 1)
       IN IF x = BigZero THEN BigOfNat(arr[i])
          ELSE BigAdd(BigShl(x, 8), BigOfNat(arr[i]))

\* u256BytesToBigInt reading byte 0 as the most significant byte
u256BytesToBigInt_bigEndian(bytes) ==
  u256After([i \in 1..Len(bytes) |-> bytes[Len(bytes) + 1 - i]], 1)

u256BytesToBigInt(bytes) == u256After(bytes, 1)

\* x reduced to its low 256 bits, as 256-bit unsigned arithmetic would keep it
Wrap256(x) ==
  Big(x.neg, MagNorm(SubSeq(x.mag, 1, IF Len(x.mag) < 32 THEN Len(x.mag) ELSE 32)))

\* computeUnclaimedTokenB without the early return for liquidity === 0n
computeUnclaimedTokenB_noZeroReturn(poolState, posState) ==
  LET unlocked  == BigIntOfString(BNToString(posState.unlocked_liquidity))
      vested    == BigIntOfString(BNToString(posState.vested_liquidity))
      permanent == BigIntOfString(BNToString(posState.permanent_locked_liquidity))
      liquidity == BigAdd(BigAdd(unlocked, vested), permanent)
      feeBPerLiquidity == u256BytesToBigInt(poolState.fee_b_per_liquidity)
      feeBCheckpoint   == u256BytesToBigInt(posState.fee_b_per_token_checkpoint)
      feeBPending      == BigIntOfString(BNToString(posState.fee_b_pending))
      delta0 == BigSub(feeBPerLiquidity, feeBCheckpoint)
      delta  == IF BigLess(delta0, BigZero) THEN BigZero ELSE delta0
      newlyAccrued == BigDiv(BigMul(liquidity, delta), LIQUIDITY_SCALE)
      totalPending == BigAdd(newlyAccrued, feeBPending)
  IN totalPending

\* computeUnclaimedTokenB without the clamp of a negative delta
computeUnclaimedTokenB_noClamp(poolState, posState) ==
  LET unlocked  == BigIntOfString(BNToString(posState.unlocked_liquidity))
      vested    == BigIntOfString(BNToString(posState.vested_liquidity))
      permanent == BigIntOfString(BNToString(posState.permanent_locked_liquidity))
      liquidity == BigAdd(BigAdd(unlocked, vested), permanent)
      feeBPerLiquidity == u256BytesToBigInt(poolState.fee_b_per_liquidity)
      feeBCheckpoint   == u256BytesToBigInt(posState.fee_b_per_token_checkpoint)
      feeBPending      == BigIntOfString(BNToString(posState.fee_b_pending))
      delta  == BigSub(feeBPerLiquidity, feeBCheckpoint)
      newlyAccrued == BigDiv(BigMul(liquidity, delta), LIQUIDITY_SCALE)
      totalPending == BigAdd(newlyAccrued, feeBPending)
  IN IF liquidity = BigZero THEN BigZero ELSE totalPending

\* computeUnclaimedTokenB subtracting the accumulator from the checkpoint
computeUnclaimedTokenB_swappedDelta(poolState, posState) ==
  LET unlocked  == BigIntOfString(BNToString(posState.unlocked_liquidity))
      vested    == BigIntOfString(BNToString(posState.vested_liquidity))
      permanent == BigIntOfString(BNToString(posState.permanent_locked_liquidity))
      liquidity == BigAdd(BigAdd(unlocked, vested), permanent)
      feeBPerLiquidity == u256BytesToBigInt(poolState.fee_b_per_liquidity)
      feeBCheckpoint   == u256BytesToBigInt(posState.fee_b_per_token_checkpoint)
      feeBPending      == BigIntOfString(BNToString(posState.fee_b_pending))
      delta0 == BigSub(feeBCheckpoint, feeBPerLiquidity)
      delta  == IF BigLess(delta0, BigZero) THEN BigZero ELSE delta0
      newlyAccrued == BigDiv(BigMul(liquidity, delta), LIQUIDITY_SCALE)
      totalPending == BigAdd(newlyAccrued, feeBPending)
  IN IF liquidity = BigZero THEN BigZero ELSE totalPending

\* computeUnclaimedTokenB with the product kept in 256 bits
computeUnclaimedTokenB_wrap256(poolState, posState) ==
  LET unlocked  == BigIntOfString(BNToString(posState.unlocked_liquidity))
      vested    == BigIntOfString(BNToString(posState.vested_liquidity))
      permanent == BigIntOfString(BNToString(posState.permanent_locked_liquidity))
      liquidity == BigAdd(BigAdd(unlocked, vested), permanent)
      feeBPerLiquidity == u256BytesToBigInt(poolState.fee_b_per_liquidity)
      feeBCheckpoint   == u256BytesToBigInt(posState.fee_b_per_token_checkpoint)
      feeBPending      == BigIntOfString(BNToString(posState.fee_b_pending))
      delta0 == BigSub(feeBPerLiquidity, feeBCheckpoint)
      delta  == IF BigLess(delta0, BigZero) THEN BigZero ELSE delta0
      newlyAccrued == BigDiv(Wrap256(BigMul(liquidity, delta)), LIQUIDITY_SCALE)
      totalPending == BigAdd(newlyAccrued, feeBPending)
  IN IF liquidity = BigZero THEN BigZero ELSE totalPending

\* function computeUnclaimedTokenB(poolState, posState)
computeUnclaimedTokenB(poolState, posState) ==
  LET unlocked  == BigIntOfString(BNToString(posState.unlocked_liquidity))
      vested    == BigIntOfString(BNToString(posState.vested_liquidity))
      permanent == BigIntOfString(BNToString(posState.permanent_locked_liquidity))
      liquidity == BigAdd(BigAdd(unlocked, vested), permanent)
      feeBPerLiquidity == u256BytesToBigInt(poolState.fee_b_per_liquidity)
      feeBCheckpoint   == u256BytesToBigInt(posState.fee_b_per_token_checkpoint)
      feeBPending      == BigIntOfString(BNToString(posState.fee_b_pending))
      delta0 == BigSub(feeBPerLiquidity, feeBCheckpoint)
      delta  == IF BigLess(delta0, BigZero) THEN BigZero ELSE delta0
      newlyAccrued == BigDiv(BigMul(liquidity, delta), LIQUIDITY_SCALE)
      totalPending == BigAdd(newlyAccrued, feeBPending)
  IN IF liquidity = BigZero THEN BigZero ELSE totalPending

\* ---------------------------------------------------------------------------
\* Account decoding
\* ---------------------------------------------------------------------------

\* const PROGRAM_ID = new PublicKey("cpamdpZCGKUy5JxQXB4dcpGPiikHawvSWAd6mEn1sGG")
PROGRAM_ID == "cpamdpZCGKUy5JxQXB4dcpGPiikHawvSWAd6mEn1sGG"

\* idl.accounts, in the order of the IDL: the names of the account types
idlAccounts == <<"Pool", "Position">>

\* accountDiscriminator(name): the first 8 bytes of sha256("account:" + name),
\* tabulated for the names of idlAccounts
accountDiscriminator(name) ==
  CASE name = "Pool"     -> <<241, 154, 109, 4, 17, 177, 109, 188>>
    [] name = "Position" -> <<170, 188, 143, 228, 122, 64, 247, 208>>

idlAccountDiscriminators ==
  [name \in {idlAccounts[i] : i \in 1..Len(idlAccounts)} |->
     accountDiscriminator(name)]

\* buf.subarray(start, end): the indexes are clamped to the buffer
subarray(buf, start, end) ==
  SubSeq(buf, start + 1, IF end < Len(buf) THEN end ELSE Len(buf))

\* Buffer.compare(a, b): -1, 0, 1 by lexicographic byte order
BufferCompare(a, b) ==
  LET n    == IF Len(a) < Len(b) THEN Len(a) ELSE Len(b)
      diff == {i \in 1..n : a[i] # b[i]}
  IN IF diff # {}
     THEN LET f == CHOOSE i \in diff : \A j \in diff : i <= j
          IN IF a[f] < b[f] THEN -1 ELSE 1
     ELSE IF Len(a) < Len(b) THEN -1
     ELSE IF Len(a) > Len(b) THEN 1
     ELSE 0

\* What connection.getAccountInfo resolves to for an address without account
Null == [null |-> TRUE]

\* The body of an account whose bytes the layout of its type cannot decode
Malformed == [malformed |-> TRUE]

NullName == "null"

Throw(msg) == [threw |-> TRUE, error |-> msg]

\* coder.decode(matchedName, info.data).  An account is [owner, data, fields]:
\* data is the head of its bytes (the discriminator region) and fields is
\* what the Borsh layout of the matched type reads from the rest.
coderDecode(matchedName, info) ==
  IF info.fields = Malformed THEN Throw("decode failed")
  ELSE [threw |-> FALSE, type |-> matchedName, parsed |-> info.fields]

\* decodeIdlAccountUnknown without the check of info.owner
decodeIdlAccountUnknown_noOwnerCheck(info) ==
  IF info = Null THEN Throw("Account not found on-chain")
  ELSE LET disc == subarray(info.data, 0, 8)
           hits == {i \in 1..Len(idlAccounts) :
                      BufferCompare(idlAccountDiscriminators[idlAccounts[i]],
                                    disc) = 0}
           matchedName ==
             IF hits = {} THEN NullName
             ELSE idlAccounts[CHOOSE i \in hits : \A j \in hits : i <= j]
       IN IF matchedName = NullName
          THEN Throw("No IDL account discriminator match")
          ELSE coderDecode(matchedName, info)

\* async function decodeIdlAccountUnknown(pubkey), given the value that
\* connection.getAccountInfo(pubkey) resolved to
decodeIdlAccountUnknown(info) ==
  IF info = Null THEN Throw("Account not found on-chain")
  ELSE IF info.owner # PROGRAM_ID THEN Throw("Account not owned by program")
  ELSE LET disc == subarray(info.data, 0, 8)
           hits == {i \in 1..Len(idlAccounts) :
                      BufferCompare(idlAccountDiscriminators[idlAccounts[i]],
                                    disc) = 0}
           matchedName ==
             IF hits = {} THEN NullName
             ELSE idlAccounts[CHOOSE i \in hits : \A j \in hits : i <= j]
       IN IF matchedName = NullName
          THEN Throw("No IDL account discriminator match")
          ELSE coderDecode(matchedName, info)

\* ---------------------------------------------------------------------------
\* processPair after both accounts are decoded
\* ---------------------------------------------------------------------------

\* "name" in obj
Has(obj, name) == name \in DOMAIN obj

\* computeUnclaimedTokenB throws a TypeError when it calls toString() on a
\* field the position record does not have
computeThrows(poolState, posState) ==
  \/ ~Has(posState, "unlocked_liquidity")
  \/ ~Has(posState, "vested_liquidity")
  \/ ~Has(posState, "permanent_locked_liquidity")
  \/ /\ MagAdd(MagAdd(posState.unlocked_liquidity, posState.vested_liquidity),
               posState.permanent_locked_liquidity) # <<>>
     /\ ~Has(posState, "fee_b_pending")

\* Number(raw) / 10 ** Number(TOKEN_B_DECIMALS): the JS number is kept as the
\* quotient it denotes, the raw amount over 10^decimals
TokensOf(raw) == [raw |-> raw, decimals |-> TOKEN_B_DECIMALS]

\* classifyAndCompute without the swap of the two records
classifyAndCompute_noSwap(poolDecoded, posDecoded) ==
  LET poolState == poolDecoded.parsed
      posState  == posDecoded.parsed
  IN IF ~Has(poolState, "fee_b_per_liquidity")
        /\ ~Has(posState, "fee_b_per_liquidity")
     THEN [threw |-> TRUE, called |-> FALSE,
           error |-> "Neither decoded account looks like Pool"]
     ELSE IF ~Has(posState, "fee_b_per_token_checkpoint")
     THEN [threw |-> TRUE, called |-> FALSE,
           error |-> "Decoded position account missing fee_b_per_token_checkpoint"]
     ELSE IF ~Has(poolState, "fee_b_per_liquidity")
             \/ computeThrows(poolState, posState)
     THEN [threw |-> TRUE, called |-> TRUE, error |-> "TypeError",
           poolState |-> poolState, posState |-> posState]
     ELSE LET totalPendingRaw == computeUnclaimedTokenB(poolState, posState)
          IN [threw |-> FALSE, called |-> TRUE,
              poolState |-> poolState, posState |-> posState,
              totalPendingRaw |-> totalPendingRaw,
              totalPendingTokens |-> TokensOf(totalPendingRaw)]

\* processPair from "let poolState = poolDecoded.parsed" to its return.
\* called tells whether computeUnclaimedTokenB was called, and with what.
classifyAndCompute(poolDecoded, posDecoded) ==
  LET first  == poolDecoded.parsed
      second == posDecoded.parsed
      swap   == ~Has(first, "fee_b_per_liquidity")
  IN IF swap /\ ~Has(second, "fee_b_per_liquidity")
     THEN [threw |-> TRUE, called |-> FALSE,
           error |-> "Neither decoded account looks like Pool"]
     ELSE LET poolState == IF swap THEN second ELSE first
              posState  == IF swap THEN first ELSE second
          IN IF ~Has(posState, "fee_b_per_token_checkpoint")
             THEN [threw |-> TRUE, called |-> FALSE,
                   error |-> "Decoded position account missing fee_b_per_token_checkpoint"]
             ELSE IF computeThrows(poolState, posState)
             THEN [threw |-> TRUE, called |-> TRUE, error |-> "TypeError",
                   poolState |-> poolState, posState |-> posState]
             ELSE LET totalPendingRaw ==
                        computeUnclaimedTokenB(poolState, posState)
                  IN [threw |-> FALSE, called |-> TRUE,
                      poolState |-> poolState, posState |-> posState,
                      totalPendingRaw |-> totalPendingRaw,
                      totalPendingTokens |-> TokensOf(totalPendingRaw)]

\* ---------------------------------------------------------------------------
\* State
\* ---------------------------------------------------------------------------

VARIABLES
  chain,          \* the accounts on chain: address -> account or Null
  chainSteps,     \* number of on-chain updates so far
  pc,             \* where main is: "start", "fetchPool", "fetchPos", "append", "sheet", "done"
  idx,            \* index in PAIRS of the pair the loop of main is at
  poolDecoded,    \* processPair: what decoding pair.pool gave
  posDecoded,     \* processPair: what decoding pair.position gave
  perPairTokens,  \* main: pair name -> amount in tokens
  totalRaw,       \* main: running total in raw units
  csv,            \* the lines of feelockdata.csv
  sheet,          \* the rows of the Google Sheet
  console,        \* what console.log and console.error printed per pair and for the sheet
  inp,            \* arguments handed to a helper that is exercised on its own
  out,            \* what that helper returned
  phase           \* "main", or "calc" / "calcDone", "bytes" / "bytesDone", ...

mainVars == <<chain, chainSteps, pc, idx, poolDecoded, posDecoded,
              perPairTokens, totalRaw, csv, sheet, console>>

vars == <<chain, chainSteps, pc, idx, poolDecoded, posDecoded,
          perPairTokens, totalRaw, csv, sheet, console, inp, out, phase>>

Nothing == [none |-> TRUE]

\* main is not running: a helper is exercised on its own
MainOff ==
  /\ chain = Nothing
  /\ chainSteps = 0
  /\ pc = "off"
  /\ idx = 0
  /\ poolDecoded = Nothing
  /\ posDecoded = Nothing
  /\ perPairTokens = <<>>
  /\ totalRaw = BigZero
  /\ csv = <<>>
  /\ sheet = <<>>
  /\ console = <<>>

\* ---------------------------------------------------------------------------
\* Input values
\* ---------------------------------------------------------------------------

\* largest whole multiple of 2^128 used as an accumulator value
MaxAccUnits == 2

\* longest byte sequence handed to u256BytesToBigInt on its own
MaxBytes == 3

Pow2_128 == Zeros(16) \o <<1>>
Pow2_127 == Zeros(15) \o <<128>>
U64Max   == [i \in 1..8 |-> 255]
U256Max  == [i \in 1..32 |-> 255]

\* a 32-byte little-endian array ([u8; 32]) holding the magnitude m
Pad32(m) == m \o Zeros(32 - Len(m))

\* the 32-byte array of k * 2^128
U256Of(k) == Pad32(MagNorm(Zeros(16) \o <<k>>))

AccValues ==
  {U256Of(k) : k \in 0..MaxAccUnits} \cup {Pad32(<<1>>), U256Max}

\* the value of a 32-byte array, read from its bytes directly
ValueOf(bytes) == Big(FALSE, MagNorm(bytes))

PosValues ==
  [unlocked_liquidity         : {<<>>, NatToMag(1), Pow2_127},
   vested_liquidity           : {<<>>, Pow2_127},
   permanent_locked_liquidity : {<<>>, NatToMag(999999)},
   fee_b_per_token_checkpoint : AccValues,
   fee_b_pending              : {<<>>, NatToMag(500), U64Max}]

PoolOf(acc) == [fee_b_per_liquidity |-> acc]

\* ---------------------------------------------------------------------------
\* computeUnclaimedTokenB exercised on its own: one position record and two
\* pool records that differ in the accumulator only, the second at least the
\* first
\* ---------------------------------------------------------------------------

InitCalc ==
  /\ MainOff
  /\ inp \in {i \in [pos : PosValues, acc : AccValues, acc2 : AccValues] :
                BigLeq(ValueOf(i.acc), ValueOf(i.acc2))}
  /\ out = Nothing
  /\ phase = "calc"

ApplyCompute ==
  /\ phase = "calc"
  /\ out' = [r1 |-> computeUnclaimedTokenB(PoolOf(inp.acc), inp.pos),
             r2 |-> computeUnclaimedTokenB(PoolOf(inp.acc2), inp.pos)]
  /\ phase' = "calcDone"
  /\ UNCHANGED inp
  /\ UNCHANGED mainVars

NextCalc == ApplyCompute

SpecCalc == InitCalc /\ [][NextCalc]_vars

\* ---------------------------------------------------------------------------
\* u256BytesToBigInt exercised on its own
\* ---------------------------------------------------------------------------

ByteSamples == {0, 1, 128, 255}

RECURSIVE SeqsUpTo(_, _)
SeqsUpTo(S, n) ==
  IF n = 0 THEN {<<>>}
  ELSE LET shorter == SeqsUpTo(S, n - 1)
       IN shorter \cup {Append(q, x) : q \in shorter, x \in S}

InitBytes ==
  /\ MainOff
  /\ inp \in SeqsUpTo(ByteSamples, MaxBytes) \cup AccValues
  /\ out = Nothing
  /\ phase = "bytes"

ApplyBytes ==
  /\ phase = "bytes"
  /\ out' = u256BytesToBigInt(inp)
  /\ phase' = "bytesDone"
  /\ UNCHANGED inp
  /\ UNCHANGED mainVars

NextBytes == ApplyBytes

SpecBytes == InitBytes /\ [][NextBytes]_vars

\* ---------------------------------------------------------------------------
\* decodeIdlAccountUnknown exercised on its own
\* ---------------------------------------------------------------------------

OtherOwners == {"11111111111111111111111111111111",
                "TokenkegQfeZyiNwAJbNbGKPFXCWuBvf9Ss623VQ5DA"}

UnknownDisc == <<155, 12, 170, 224, 30, 250, 204, 130>>

PoolRecord == [fee_b_per_liquidity |-> U256Of(2)]

PositionRecord ==
  [unlocked_liquidity         |-> NatToMag(1000000),
   vested_liquidity           |-> <<>>,
   permanent_locked_liquidity |-> <<>>,
   fee_b_per_token_checkpoint |-> U256Of(1),
   fee_b_pending              |-> NatToMag(500)]

\* heads of account data: every prefix of a discriminator, a whole
\* discriminator followed by one more byte
DataValues ==
  LET discs == {accountDiscriminator("Pool"), accountDiscriminator("Position"),
                UnknownDisc}
  IN {SubSeq(d, 1, n) : d \in discs, n \in 0..8}
       \cup {Append(d, 0) : d \in discs}

AccountValues ==
  [owner  : {PROGRAM_ID} \cup OtherOwners,
   data   : DataValues,
   fields : {PoolRecord, PositionRecord, Malformed}]

InitDecode ==
  /\ MainOff
  /\ inp \in AccountValues \cup {Null}
  /\ out = Nothing
  /\ phase = "decode"

ApplyDecode ==
  /\ phase = "decode"
  /\ out' = decodeIdlAccountUnknown(inp)
  /\ phase' = "decodeDone"
  /\ UNCHANGED inp
  /\ UNCHANGED mainVars

NextDecode == ApplyDecode

SpecDecode == InitDecode /\ [][NextDecode]_vars

\* ---------------------------------------------------------------------------
\* Role classification exercised on its own: two decoded records, handed to
\* processPair in both orders
\* ---------------------------------------------------------------------------

DecodedValues ==
  {[type |-> "Pool", parsed |-> PoolOf(a)] : a \in AccValues}
    \cup {[type |-> "Position", parsed |-> r] :
            r \in {PositionRecord,
                   [PositionRecord EXCEPT !.unlocked_liquidity = <<>>],
                   [fee_b_per_token_checkpoint |-> U256Of(1)],
                   [fee_b_per_token_checkpoint |-> U256Of(1),
                    unlocked_liquidity         |-> <<>>,
                    vested_liquidity           |-> <<>>,
                    permanent_locked_liquidity |-> <<>>]}}
    \cup {[type |-> "Config", parsed |-> [pool_fees |-> 0]]}
    \cup {[type |-> "PoolWithCheckpoint",
           parsed |-> [f \in DOMAIN PositionRecord \cup {"fee_b_per_liquidity"} |->
                         IF f = "fee_b_per_liquidity" THEN a
                         ELSE PositionRecord[f]]] : a \in {U256Of(1), U256Of(2)}}

InitClassify ==
  /\ MainOff
  /\ inp \in [a : DecodedValues, b : DecodedValues]
  /\ out = Nothing
  /\ phase = "classify"

ApplyClassify ==
  /\ phase = "classify"
  /\ out' = [ab |-> classifyAndCompute(inp.a, inp.b),
             ba |-> classifyAndCompute(inp.b, inp.a)]
  /\ phase' = "classifyDone"
  /\ UNCHANGED inp
  /\ UNCHANGED mainVars

NextClassify == ApplyClassify

SpecClassify == InitClassify /\ [][NextClassify]_vars

\* ---------------------------------------------------------------------------
\* main: one run of the daily snapshot, with the chain moving underneath
\* ---------------------------------------------------------------------------

\* number of on-chain updates that happen during one run
MaxChainSteps == 2

\* const PAIRS
PAIRS ==
  << [name     |-> "USDC/SCARCE",
      pool     |-> "5NTgc3UVv9k4VE7dRFA9p9nwbsBwK98UqDBpWgxUpQGM",
      position |-> "9gv2J53nGeG1WgsuuUEszu22Qsww8DiuaxY6n9s69NvS"],
     [name     |-> "SOL/SCARCE",
      pool     |-> "DP6TQnxVJm8mnr8hgP1kEsGuobtPixnhXbmhCnwnhzpA",
      position |-> "DQbTWNmnRCTH2kYc7PTHUMFKVjKbqo6a9jDyjm5Gvyw5"],
     [name     |-> "ETH/SCARCE",
      pool     |-> "8Ki2eoYCg4T4u81so4FeBdD2dQV77Vw4itseVv1UGJJR",
      position |-> "4hFJ7VZH7iBkrk1JzvgbvjoVpHX774JjjM15jvJLrb2C"],
     [name     |-> "BTC/SCARCE",
      pool     |-> "8qxAav4uGykfwiVDF9rdm4hmH2uYx9d8pXrmYTqRBgt2",
      position |-> "GYRrMpf2LZjhqz5RHHmabNuMXSrhpDkqnvuurx8ekRZr"] >>

PairIds == 1..Len(PAIRS)

Addresses ==
  {PAIRS[i].pool : i \in PairIds} \cup {PAIRS[i].position : i \in PairIds}

\* now.toISOString() of this run, and the time of a row of an earlier run
TimestampIso == "now"
EarlierIso   == "earlier"

PoolAccount ==
  [owner  |-> PROGRAM_ID,
   data   |-> accountDiscriminator("Pool"),
   fields |-> PoolRecord]

PositionAccount ==
  [owner  |-> PROGRAM_ID,
   data   |-> accountDiscriminator("Position"),
   fields |-> PositionRecord]

\* What the two addresses of a pair hold when the run starts:
\* [pool |-> account at pair.pool, position |-> account at pair.position].
\* Either both accounts are as configured, or the pool account is not there.
PlainSetups ==
  { [pool |-> PoolAccount, position |-> PositionAccount],
    [pool |-> Null,        position |-> PositionAccount] }

\* The two addresses are configured the other way round; the position account
\* belongs to another program; both addresses hold a pool.
OddSetups ==
  { [pool |-> PositionAccount, position |-> PoolAccount],
    [pool |-> PoolAccount,
     position |-> [PositionAccount EXCEPT !.owner = "11111111111111111111111111111111"]],
    [pool |-> PoolAccount, position |-> PoolAccount] }

\* Any pair may be missing its pool account and one pair may be set up oddly
Setups ==
  {setup \in [PairIds -> PlainSetups \cup OddSetups] :
     \E focus \in PairIds :
       \A i \in PairIds \ {focus} : setup[i] \in PlainSetups}

\* the header line of the CSV and a data line
HeaderLine ==
  [kind |-> "header",
   cols |-> <<"time">> \o [i \in PairIds |-> PAIRS[i].name] \o <<"Total">>]

RowLine(timestampIso, cols, totalTokens) ==
  [kind |-> "row", time |-> timestampIso, cols |-> cols, total |-> totalTokens]

\* the JS number 0
ZeroTokens == TokensOf(BigZero)

Init ==
  /\ \E setup \in Setups :
       chain = [a \in Addresses |->
                  LET i == CHOOSE j \in PairIds :
                             a \in {PAIRS[j].pool, PAIRS[j].position}
                  IN IF a = PAIRS[i].pool THEN setup[i].pool
                     ELSE setup[i].position]
  /\ chainSteps = 0
  /\ pc = "start"
  /\ idx = 1
  /\ poolDecoded = Nothing
  /\ posDecoded = Nothing
  /\ perPairTokens = <<>>
  /\ totalRaw = BigZero
  /\ csv \in {<<>>,
              <<HeaderLine,
                RowLine(EarlierIso, [i \in PairIds |-> ZeroTokens], ZeroTokens)>>}
  /\ sheet = <<>>
  /\ console = <<>>
  /\ inp = Nothing
  /\ out = Nothing
  /\ phase = "main"

\* --- the chain -------------------------------------------------------------

IsLive(a) == chain[a] # Null /\ chain[a].fields # Malformed

IsPoolAt(a)     == IsLive(a) /\ Has(chain[a].fields, "fee_b_per_liquidity")
IsPositionAt(a) == IsLive(a) /\ Has(chain[a].fields, "fee_b_pending")

\* The chain is updated while the run is between the two reads of a pair, on
\* the accounts of that pair: an update before the first read or after the
\* second one cannot be told from a different state of the chain at the start.

\* A swap pays fees: the accumulator of a pool grows by one unit of 2^128
ChainAccrue(a) ==
  /\ phase = "main"
  /\ pc = "fetchPos"
  /\ chainSteps < MaxChainSteps
  /\ IsPoolAt(a)
  /\ chain' = [chain EXCEPT ![a].fields.fee_b_per_liquidity =
                 Pad32(MagAdd(MagNorm(@), Pow2_128))]
  /\ chainSteps' = chainSteps + 1
  /\ UNCHANGED <<pc, idx, poolDecoded, posDecoded, perPairTokens, totalRaw,
                 csv, sheet, console, inp, out, phase>>

\* The position at q is settled against the pool at a: what accrued since its
\* checkpoint moves to fee_b_pending and the checkpoint moves to the
\* accumulator
ChainSettle(a, q) ==
  /\ phase = "main"
  /\ pc = "fetchPos"
  /\ chainSteps < MaxChainSteps
  /\ IsPoolAt(a)
  /\ IsPositionAt(q)
  /\ LET pool    == chain[a].fields
         pos     == chain[q].fields
         acc     == Big(FALSE, MagNorm(pool.fee_b_per_liquidity))
         ckpt    == Big(FALSE, MagNorm(pos.fee_b_per_token_checkpoint))
         liq     == Big(FALSE, MagAdd(MagAdd(pos.unlocked_liquidity,
                                             pos.vested_liquidity),
                                      pos.permanent_locked_liquidity))
         accrued == BigDiv(BigMul(liq, BigSub(acc, ckpt)), Big(FALSE, Pow2_128))
     IN /\ BigLess(ckpt, acc)
        /\ chain' = [chain EXCEPT
                       ![q].fields.fee_b_pending = MagAdd(@, accrued.mag),
                       ![q].fields.fee_b_per_token_checkpoint =
                          pool.fee_b_per_liquidity]
  /\ chainSteps' = chainSteps + 1
  /\ UNCHANGED <<pc, idx, poolDecoded, posDecoded, perPairTokens, totalRaw,
                 csv, sheet, console, inp, out, phase>>

\* --- the program -----------------------------------------------------------

\* perPairTokens[name] = value
SetKey(obj, name, value) ==
  [k \in DOMAIN obj \cup {name} |-> IF k = name THEN value ELSE obj[k]]

\* function ensureCsvHeader(): the file is missing or empty when it has no line
ensureCsvHeader(file) == IF file = <<>> THEN <<HeaderLine>> ELSE file

\* function appendCsvCombinedRow(timestampIso, perPairTokens, totalTokens)
appendCsvCombinedRow(file, timestampIso, tokens, totalTokens) ==
  LET cols == [i \in PairIds |->
                 IF PAIRS[i].name \in DOMAIN tokens
                 THEN tokens[PAIRS[i].name] ELSE ZeroTokens]
  IN Append(file, RowLine(timestampIso, cols, totalTokens))

\* main: from its start to the loop over PAIRS
EnsureHeader ==
  /\ phase = "main"
  /\ pc = "start"
  /\ csv' = ensureCsvHeader(csv)
  /\ pc' = "fetchPool"
  /\ UNCHANGED <<chain, chainSteps, idx, poolDecoded, posDecoded,
                 perPairTokens, totalRaw, sheet, console, inp, out, phase>>

\* the loop of main moves to the next pair, or past the loop
LoopNext ==
  IF idx < Len(PAIRS)
  THEN idx' = idx + 1 /\ pc' = "fetchPool"
  ELSE idx' = idx /\ pc' = "append"

\* catch (e) of the loop of main: the error is printed, the pair counts 0
\* and the loop goes on
CatchPairError_rethrow(msg) ==
  /\ console' = Append(console,
                       [stream |-> "error", pair |-> PAIRS[idx].name, msg |-> msg])
  /\ pc' = "done"
  /\ UNCHANGED <<idx, perPairTokens, totalRaw>>

CatchPairError(msg) ==
  /\ console' = Append(console,
                       [stream |-> "error", pair |-> PAIRS[idx].name, msg |-> msg])
  /\ perPairTokens' = SetKey(perPairTokens, PAIRS[idx].name, ZeroTokens)
  /\ UNCHANGED totalRaw
  /\ LoopNext

\* processPair up to the first await: the account at pair.pool is fetched
\* and decoded
FetchPool ==
  /\ phase = "main"
  /\ pc = "fetchPool"
  /\ \E r \in {decodeIdlAccountUnknown(chain[PAIRS[idx].pool])} :
        IF r.threw
        THEN /\ CatchPairError(r.error)
             /\ poolDecoded' = Nothing
        ELSE /\ poolDecoded' = r
             /\ pc' = "fetchPos"
             /\ UNCHANGED <<idx, perPairTokens, totalRaw, console>>
  /\ posDecoded' = Nothing
  /\ UNCHANGED <<chain, chainSteps, csv, sheet, inp, out, phase>>

\* processPair from the second await to its end, and the rest of the loop
\* body of main: the account at pair.position is fetched and decoded, the
\* roles are told apart, the amount is computed and added to the totals
FetchPosition ==
  /\ phase = "main"
  /\ pc = "fetchPos"
  /\ \E r \in {decodeIdlAccountUnknown(chain[PAIRS[idx].position])} :
        IF r.threw
        THEN /\ CatchPairError(r.error)
             /\ posDecoded' = Nothing
        ELSE /\ posDecoded' = r
             /\ \E res \in {classifyAndCompute(poolDecoded, r)} :
                   IF res.threw
                   THEN CatchPairError(res.error)
                   ELSE /\ totalRaw' = BigAdd(totalRaw, res.totalPendingRaw)
                        /\ perPairTokens' =
                             SetKey(perPairTokens, PAIRS[idx].name,
                                    TokensOf(res.totalPendingRaw))
                        /\ console' =
                             Append(console,
                                    [stream |-> "log", pair |-> PAIRS[idx].name,
                                     raw |-> res.totalPendingRaw])
                        /\ LoopNext
  /\ UNCHANGED <<chain, chainSteps, poolDecoded, csv, sheet, inp, out, phase>>

\* main after the loop: the row is appended to the CSV
AppendCsv ==
  /\ phase = "main"
  /\ pc = "append"
  /\ csv' = appendCsvCombinedRow(csv, TimestampIso, perPairTokens,
                                 TokensOf(totalRaw))
  /\ pc' = "sheet"
  /\ UNCHANGED <<chain, chainSteps, idx, poolDecoded, posDecoded,
                 perPairTokens, totalRaw, sheet, console, inp, out, phase>>

\* main to its end: appendSheetCombinedRow returns without a client, appends
\* the row, or throws and the error is printed
SheetAppend ==
  /\ phase = "main"
  /\ pc = "sheet"
  /\ \E outcome \in {"skipped", "appended", "failed"} :
       /\ sheet' = IF outcome = "appended"
                   THEN appendCsvCombinedRow(sheet, TimestampIso, perPairTokens,
                                             TokensOf(totalRaw))
                   ELSE sheet
       /\ console' = IF outcome = "failed"
                     THEN Append(console,
                                 [stream |-> "error", pair |-> "sheet",
                                  msg |-> "Failed to update Google Sheet"])
                     ELSE Append(console,
                                 [stream |-> "log", pair |-> "sheet",
                                  raw |-> BigZero])
  /\ pc' = "done"
  /\ UNCHANGED <<chain, chainSteps, idx, poolDecoded, posDecoded,
                 perPairTokens, totalRaw, csv, inp, out, phase>>

Next ==
  \/ EnsureHeader
  \/ FetchPool
  \/ FetchPosition
  \/ AppendCsv
  \/ SheetAppend
  \/ \E a \in {PAIRS[idx].pool, PAIRS[idx].position} : ChainAccrue(a)
  \/ ChainSettle(PAIRS[idx].pool, PAIRS[idx].position)
  \/ ChainSettle(PAIRS[idx].position, PAIRS[idx].pool)

Spec == Init /\ [][Next]_vars

\* ---------------------------------------------------------------------------
\* Properties of computeUnclaimedTokenB (SpecCalc)
\* ---------------------------------------------------------------------------

\* the values of the fields of a position record, read directly
LiquidityOf(pos) ==
  Big(FALSE, MagAdd(MagAdd(pos.unlocked_liquidity, pos.vested_liquidity),
                    pos.permanent_locked_liquidity))
PendingOf(pos)    == Big(FALSE, pos.fee_b_pending)
CheckpointOf(pos) == ValueOf(pos.fee_b_per_token_checkpoint)

\* C1 as stated: whenever the accumulator is at most the checkpoint,
\* computeUnclaimedTokenB returns fee_b_pending, for every value of the
\* liquidity components.
C1_AsStated ==
  (phase = "calcDone" /\ BigLeq(ValueOf(inp.acc), CheckpointOf(inp.pos)))
    => out.r1 = PendingOf(inp.pos)

\* C1 amended: whenever the accumulator is at most the checkpoint and the
\* total liquidity is not zero, computeUnclaimedTokenB returns fee_b_pending.
C1_PendingWhenNoDelta ==
  (/\ phase = "calcDone"
   /\ BigLeq(ValueOf(inp.acc), CheckpointOf(inp.pos))
   /\ LiquidityOf(inp.pos) # BigZero)
    => out.r1 = PendingOf(inp.pos)

C1_Witness ==
  /\ phase = "calcDone"
  /\ BigLess(ValueOf(inp.acc), CheckpointOf(inp.pos))
  /\ LiquidityOf(inp.pos) = Big(FALSE, Pow2_128)
  /\ PendingOf(inp.pos) # BigZero
  /\ out.r1 = PendingOf(inp.pos)

\* C2: when the three liquidity components sum to 0, computeUnclaimedTokenB
\* returns 0 whatever the accumulator, the checkpoint and fee_b_pending are.
C2_ZeroLiquidityGivesZero ==
  (phase = "calcDone" /\ LiquidityOf(inp.pos) = BigZero) => out.r1 = BigZero

C2_Witness ==
  /\ phase = "calcDone"
  /\ LiquidityOf(inp.pos) = BigZero
  /\ PendingOf(inp.pos) # BigZero
  /\ BigLess(CheckpointOf(inp.pos), ValueOf(inp.acc))
  /\ out.r1 = BigZero

\* C4: for one position record, an accumulator that is at least another one
\* gives a result that is at least the other result.
C4_Monotone ==
  (phase = "calcDone" /\ BigLeq(ValueOf(inp.acc), ValueOf(inp.acc2)))
    => BigLeq(out.r1, out.r2)

C4_Witness ==
  /\ phase = "calcDone"
  /\ BigLess(ValueOf(inp.acc), ValueOf(inp.acc2))
  /\ BigLess(CheckpointOf(inp.pos), ValueOf(inp.acc2))
  /\ LiquidityOf(inp.pos) = BigOfNat(1000000)
  /\ BigLess(out.r1, out.r2)

\* max(0, accumulator - checkpoint), from the bytes
DeltaOf(acc, pos) ==
  IF BigLess(CheckpointOf(pos), ValueOf(acc))
  THEN Big(FALSE, MagSub(ValueOf(acc).mag, CheckpointOf(pos).mag))
  ELSE BigZero

\* q = floor(x / 2^128), said with multiplication only
IsFloorOfScaled(q, x) ==
  /\ ~q.neg
  /\ MagCmp(MagMul(q.mag, Pow2_128), x.mag) <= 0
  /\ MagCmp(x.mag, MagMul(MagAdd(q.mag, <<1>>), Pow2_128)) < 0

\* C5: with liquidity > 0 the result is
\* floor(liquidity * max(0, accumulator - checkpoint) / 2^128) + fee_b_pending
\* in full width; liquidity 2^128 and delta 1 accrue 1; accumulator 2*2^128,
\* checkpoint 2^128, liquidity 1,000,000 and pending 500 give 1,000,500.
C5_ScaledFloor ==
  (phase = "calcDone" /\ LiquidityOf(inp.pos) # BigZero)
    => /\ IsFloorOfScaled(BigSub(out.r1, PendingOf(inp.pos)),
                          BigMul(LiquidityOf(inp.pos), DeltaOf(inp.acc, inp.pos)))
       /\ (/\ LiquidityOf(inp.pos) = Big(FALSE, Pow2_128)
           /\ DeltaOf(inp.acc, inp.pos) = BigOfNat(1))
            => out.r1 = BigAdd(BigOfNat(1), PendingOf(inp.pos))
       /\ (/\ inp.acc = U256Of(2)
           /\ inp.pos.fee_b_per_token_checkpoint = U256Of(1)
           /\ LiquidityOf(inp.pos) = BigOfNat(1000000)
           /\ PendingOf(inp.pos) = BigOfNat(500))
            => out.r1 = BigOfNat(1000500)

C5_Witness ==
  /\ phase = "calcDone"
  /\ inp.acc = U256Of(2)
  /\ inp.pos.fee_b_per_token_checkpoint = U256Of(1)
  /\ LiquidityOf(inp.pos) = BigOfNat(1000000)
  /\ PendingOf(inp.pos) = BigOfNat(500)
  /\ out.r1 = BigOfNat(1000500)

\* ---------------------------------------------------------------------------
\* Properties of u256BytesToBigInt (SpecBytes)
\* ---------------------------------------------------------------------------

\* the sum of b[i] * 256^(i - 1) for i in lo..hi
RECURSIVE PositionalSum(_, _, _)
PositionalSum(b, lo, hi) ==
  IF lo > hi THEN BigZero
  ELSE IF lo = hi
  THEN BigMul(BigOfNat(b[lo]), Big(FALSE, Zeros(lo - 1) \o <<1>>))
  ELSE LET mid == (lo + hi) \div 2
       IN BigAdd(PositionalSum(b, lo, mid), PositionalSum(b, mid + 1, hi))

\* C10: u256BytesToBigInt returns the sum of b[i] * 256^i, byte 0 least
\* significant; 0 for the empty sequence; never negative, never 256^n or more.
C10_LittleEndianValue ==
  phase = "bytesDone"
    => /\ out = PositionalSum(inp, 1, Len(inp))
       /\ (inp = <<>> => out = BigZero)
       /\ ~out.neg
       /\ BigLess(out, Big(FALSE, Zeros(Len(inp)) \o <<1>>))

C10_Witness ==
  /\ phase = "bytesDone"
  /\ inp = <<1, 0, 128>>
  /\ out = BigOfNat(8388609)

\* ---------------------------------------------------------------------------
\* Properties of decodeIdlAccountUnknown (SpecDecode)
\* ---------------------------------------------------------------------------

\* C6: an account whose owner is not the program id is rejected with the
\* ownership error whatever its bytes are, a registered discriminator
\* included; an account with fewer than 8 bytes of data is rejected.
C6_RejectsForeignAndShort ==
  (phase = "decodeDone" /\ inp # Null)
    => /\ inp.owner # PROGRAM_ID
            => (out.threw /\ out.error = "Account not owned by program")
       /\ Len(inp.data) < 8 => out.threw

C6_Witness ==
  /\ phase = "decodeDone"
  /\ inp # Null
  /\ inp.owner # PROGRAM_ID
  /\ inp.data = accountDiscriminator("Pool")
  /\ inp.fields = PoolRecord
  /\ out.threw

\* ---------------------------------------------------------------------------
\* Properties of the role classification in processPair (SpecClassify)
\* ---------------------------------------------------------------------------

\* the two results name the same pool and position, or the same failure
SameOutcome(r, t) ==
  /\ r.called = t.called
  /\ r.threw = t.threw
  /\ IF r.called
     THEN r.poolState = t.poolState /\ r.posState = t.posState
     ELSE r.error = t.error

\* C3: the role assignment is the same in both orders of the two records.
C3_OrderIndependent ==
  phase = "classifyDone" => SameOutcome(out.ab, out.ba)

\* C7: processPair throws without calling computeUnclaimedTokenB exactly when
\* neither record exposes fee_b_per_liquidity or the record selected as
\* position lacks fee_b_per_token_checkpoint; otherwise it goes on with a pool
\* that exposes fee_b_per_liquidity and the other record as position.
C7_RoleFailures ==
  phase = "classifyDone"
    => LET A == inp.a.parsed
           B == inp.b.parsed
           r == out.ab
           neither  == ~Has(A, "fee_b_per_liquidity") /\ ~Has(B, "fee_b_per_liquidity")
           selected == IF Has(A, "fee_b_per_liquidity") THEN B ELSE A
       IN /\ (r.threw /\ ~r.called)
               <=> (neither \/ ~Has(selected, "fee_b_per_token_checkpoint"))
          /\ ~r.called => r.threw
          /\ r.called
               => /\ Has(r.poolState, "fee_b_per_liquidity")
                  /\ Has(r.posState, "fee_b_per_token_checkpoint")
                  /\ \/ r.poolState = A /\ r.posState = B
                     \/ r.poolState = B /\ r.posState = A

C7_Witness ==
  /\ phase = "classifyDone"
  /\ inp.a.parsed = PositionRecord
  /\ inp.b.parsed = PoolRecord
  /\ out.ab.called
  /\ ~out.ab.threw
  /\ out.ab.poolState = PoolRecord
  /\ out.ab.posState = PositionRecord
  /\ out.ab.totalPendingRaw = BigOfNat(1000500)

\* ---------------------------------------------------------------------------
\* Properties of a run of main (Spec)
\* ---------------------------------------------------------------------------

\* what was printed for the pairs, in the order of printing
PairLines == SelectSeq(console, LAMBDA e : e.pair # "sheet")

\* the lines of the CSV that are rows of this run
RowsOfRun ==
  {i \in 1..Len(csv) : csv[i].kind = "row" /\ csv[i].time = TimestampIso}

\* the sum of the raw amounts printed by the first n pair lines
RECURSIVE SumLogged(_, _)
SumLogged(lines, n) ==
  IF n = 0 THEN BigZero
  ELSE IF lines[n].stream = "log"
  THEN BigAdd(SumLogged(lines, n - 1), lines[n].raw)
  ELSE SumLogged(lines, n - 1)

C8_RowAfterAllPairs ==
  /\ pc \in {"start", "fetchPool", "fetchPos", "append"} => RowsOfRun = {}
  /\ pc \in {"sheet", "done"}
       => /\ RowsOfRun = {Len(csv)}
          /\ Len(PairLines) = Len(PAIRS)
          /\ \A i \in PairIds :
               /\ PairLines[i].pair = PAIRS[i].name
               /\ csv[Len(csv)].cols[i] =
                    IF PairLines[i].stream = "error" THEN ZeroTokens
                    ELSE TokensOf(PairLines[i].raw)
          /\ csv[Len(csv)].total = TokensOf(SumLogged(PairLines, Len(PairLines)))

C8_FailureStep ==
  /\ (/\ Len(console') = Len(console) + 1
      /\ console'[Len(console')].stream = "error"
      /\ console'[Len(console')].pair # "sheet")
       => /\ console'[Len(console')].pair = PAIRS[idx].name
          /\ totalRaw' = totalRaw
          /\ perPairTokens'[PAIRS[idx].name] = ZeroTokens
          /\ IF idx < Len(PAIRS)
             THEN idx' = idx + 1 /\ pc' = "fetchPool"
             ELSE pc' = "append"
  /\ pc = "sheet" => csv' = csv
  /\ pc = "done" => csv' = csv

\* C8: a run that reaches the loop appends exactly one row to the CSV, after
\* all pairs were processed in the order of PAIRS, whatever pairs fail; a
\* failed pair counts 0, leaves the running raw total as it is and is followed
\* by the next pair; a failure of the sheet leaves the CSV as it is.
C8_OneRowPerRun == [](C8_RowAfterAllPairs) /\ [][C8_FailureStep]_vars

C8_Witness ==
  /\ pc = "done"
  /\ console[Len(console)] = [stream |-> "error", pair |-> "sheet",
                              msg |-> "Failed to update Google Sheet"]
  /\ RowsOfRun = {Len(csv)}
  /\ PairLines[1].stream = "error"
  /\ PairLines[2].stream = "log"
  /\ PairLines[3].stream = "error"
  /\ PairLines[4].stream = "log"
  /\ csv[Len(csv)].cols[1] = ZeroTokens
  /\ csv[Len(csv)].cols[4] # ZeroTokens
  /\ sheet = <<>>

\* C9: the two accounts of a pair are read one after the other; whatever the
\* chain does in between, a pool and a position that were both decoded give a
\* result, which is not negative and, the liquidity being positive, not below
\* the fee_b_pending that was read.
C9_SkewTolerated ==
  (/\ phase = "main"
   /\ poolDecoded # Nothing
   /\ posDecoded # Nothing
   /\ {poolDecoded.type, posDecoded.type} = {"Pool", "Position"})
    => LET pos  == IF poolDecoded.type = "Position"
                   THEN poolDecoded.parsed ELSE posDecoded.parsed
           line == PairLines[Len(PairLines)]
       IN /\ line.pair = PAIRS[IF pc = "fetchPool" THEN idx - 1 ELSE idx].name
          /\ line.stream = "log"
          /\ ~line.raw.neg
          /\ LiquidityOf(pos) # BigZero => BigLeq(PendingOf(pos), line.raw)

C9_Witness ==
  /\ phase = "main"
  /\ poolDecoded # Nothing
  /\ posDecoded # Nothing
  /\ poolDecoded.type = "Pool"
  /\ posDecoded.type = "Position"
  /\ chainSteps = 2
  /\ BigLess(ValueOf(poolDecoded.parsed.fee_b_per_liquidity),
             CheckpointOf(posDecoded.parsed))
  /\ BigLess(BigOfNat(500), PendingOf(posDecoded.parsed))
  /\ PairLines[Len(PairLines)].stream = "log"
  /\ PairLines[Len(PairLines)].raw = PendingOf(posDecoded.parsed)

====
